---- MODULE Spec2Model ----
(***************************************************************************)
(* A model of theanets/trainer.py: the Trainer base class (parameter       *)
(* flattening, best-parameter bookkeeping, evaluate), the SGD trainer      *)
(* (train loop, _sgd, _nag, _maybe_rescale_gradient, _apply_delta) and the *)
(* Scipy trainer (train loop around scipy.optimize.minimize).              *)
(*                                                                         *)
(* Numbers.  numpy's floats are modelled as exact rationals <<n, d>> with  *)
(* d > 0 in lowest terms; rounding error is not modelled.  The float 1e100 *)
(* that best_cost starts from lies outside TLC's integers and is carried   *)
(* as the tagged value E100.                                               *)
(*                                                                         *)
(* Arrays.  A numpy array is [shape, data]: data is the row-major content  *)
(* of the buffer, shape a sequence of dimensions.  reshape keeps data and  *)
(* sets shape; flatten yields data.                                        *)
(***************************************************************************)
EXTENDS Integers, Sequences, FiniteSets, TLC

VARIABLES
    \* keyword arguments fixed by Trainer.__init__ / SGD.__init__
    trainer,               \* "SGD" or "Scipy": the class train is called on
    validation_frequency,  \* kwargs 'validate'
    min_improvement,       \* kwargs 'min_improvement'
    iterations,            \* kwargs 'num_updates'
    patience,              \* kwargs 'patience'
    momentum,              \* kwargs 'momentum'
    max_gradient_norm,     \* kwargs 'max_gradient_norm'
    learning_rate_decay,   \* kwargs 'learning_rate_decay'
    clip_params_at_zero,   \* kwargs 'clip_params_at_zero'
    train_set,             \* number of minibatches of the training set
    \* trainer and network state
    params,                \* the values of the network's shared variables
    best_cost, best_iter, best_params,
    learning_rate,
    velocities,            \* local of SGD.train
    \* control
    pc,                    \* position in train / evaluate / _sgd / _nag
    i,                     \* loop variable of train
    cost,                  \* evaluate: costs[0]
    improvement,           \* evaluate: improvement
    batch,                 \* _sgd / _nag: index of the minibatch x
    k,                     \* _sgd / _nag: index in the zip over self.params
    grads,                 \* _sgd / _nag: the result of self.f_grad(*x)
    moves,                 \* _nag: moves
    x,                     \* Scipy.train: the minimizer's current point
    nit,                   \* Scipy.train: inner steps taken by the minimizer
    \* argument and result of a function applied on its own
    arg, ret,
    \* history, recorded for stating properties
    h

cfgVars == <<trainer, validation_frequency, min_improvement, iterations, patience, momentum, max_gradient_norm, learning_rate_decay, clip_params_at_zero, train_set>>
bestVars == <<best_cost, best_iter, best_params>>
evalVars == <<cost, improvement>>
learnVars == <<batch, k, grads, moves>>
scipyVars == <<x, nit>>
fnVars == <<arg, ret>>
vars == <<cfgVars, params, bestVars, learning_rate, velocities, pc, i, evalVars, learnVars, scipyVars, fnVars, h>>

---------------------------------------------------------------------------
(* Bounds of the model                                                     *)

MaxIterations == 3
MaxValidate == 2
MaxElem == 2
MaxGrad == 8

---------------------------------------------------------------------------
(* Rational arithmetic: the float operations of the source, made exact     *)

Abs(n) == IF n < 0 THEN -n ELSE n

RECURSIVE GCD(_, _)
GCD(a, b) == IF b = 0 THEN a ELSE GCD(b, a % b)

Rat(n, d) ==
    LET g == GCD(Abs(n), Abs(d))
        s == IF d < 0 THEN -1 ELSE 1
    IN  <<(s * n) \div g, (s * d) \div g>>

Num(n) == <<n, 1>>
Zero == Num(0)
One == Num(1)
\* sums and products are reduced before they are multiplied out
RAdd(a, b) ==
    LET g == GCD(a[2], b[2])
    IN  Rat(a[1] * (b[2] \div g) + b[1] * (a[2] \div g), (a[2] \div g) * b[2])
RNeg(a) == <<-a[1], a[2]>>
RSub(a, b) == RAdd(a, RNeg(b))
RMul(a, b) ==
    LET g1 == GCD(Abs(a[1]), b[2])
        g2 == GCD(Abs(b[1]), a[2])
    IN  Rat((a[1] \div g1) * (b[1] \div g2), (a[2] \div g2) * (b[2] \div g1))
RInv(a) == IF a[1] < 0 THEN <<-a[2], -a[1]>> ELSE <<a[2], a[1]>>
RDiv(a, b) == RMul(a, RInv(b))
RLt(a, b) ==
    LET g == GCD(a[2], b[2])
    IN  a[1] * (b[2] \div g) < b[1] * (a[2] \div g)

\* the square root of a rational whose numerator and denominator are squares
ISqrt(n) == CHOOSE r \in 0..n : r * r = n
RSqrt(a) == <<ISqrt(a[1]), ISqrt(a[2])>>
IsSquare(n) == \E r \in 0..n : r * r = n

---------------------------------------------------------------------------
(* Arrays                                                                  *)

RECURSIVE Prod(_)
Prod(s) == IF s = <<>> THEN 1 ELSE Head(s) * Prod(Tail(s))

RECURSIVE Sum(_)
Sum(s) == IF s = <<>> THEN 0 ELSE Head(s) + Sum(Tail(s))

Array(shape, data) == [shape |-> shape, data |-> data]
Elems(a) == 1..Len(a.data)

\* a + b, c * a, a / c, elementwise on the buffer
AAdd(a, b) == Array(a.shape, [e \in Elems(a) |-> RAdd(a.data[e], b.data[e])])
AScale(c, a) == Array(a.shape, [e \in Elems(a) |-> RMul(c, a.data[e])])
ADiv(a, c) == Array(a.shape, [e \in Elems(a) |-> RDiv(a.data[e], c)])
zeros_like(a) == Array(a.shape, [e \in Elems(a) |-> Zero])

RECURSIVE SumSq(_)
SumSq(s) == IF s = <<>> THEN Zero ELSE RAdd(RMul(Head(s), Head(s)), SumSq(Tail(s)))

\* np.linalg.norm
norm(a) == RSqrt(SumSq(a.data))

\* x[lo:hi] of numpy: 0-based, hi exclusive, cut at the end of x
Slice(s, lo, hi) ==
    LET top == IF hi < Len(s) THEN hi ELSE Len(s)
    IN  IF lo >= top THEN <<>> ELSE SubSeq(s, lo + 1, top)

---------------------------------------------------------------------------
(* Trainer: flat_to_arrays, arrays_to_flat                                 *)

shapesOf(ps) == [n \in 1..Len(ps) |-> ps[n].shape]
countsOf(shs) == [n \in 1..Len(shs) |-> Prod(shs[n])]

\* start, after the first n turns of the loops of lines 79 and 88
StartAt(counts, n) == Sum(SubSeq(counts, 1, n))

\* flat_to_arrays without the assertion of line 82
flat_to_arrays_unchecked(shs, xs) ==
    LET counts == countsOf(shs)
        piece(n) == Slice(xs, StartAt(counts, n - 1), StartAt(counts, n - 1) + counts[n])
    IN  IF \E n \in 1..Len(shs) : Len(piece(n)) # counts[n]
        THEN [err |-> "ValueError", arrays |-> <<>>]
        ELSE [err |-> "", arrays |-> [n \in 1..Len(shs) |-> Array(shs[n], piece(n))]]

\* The result is [err, arrays]: err is "" when the arrays are returned,
\* "ValueError" when a reshape fails, "AssertionError" when line 82 fails.
flat_to_arrays(shs, xs) ==
    LET counts == countsOf(shs)
        piece(n) == Slice(xs, StartAt(counts, n - 1), StartAt(counts, n - 1) + counts[n])
        fits(n) == Len(piece(n)) = counts[n]
    IN  IF \E n \in 1..Len(shs) : ~fits(n)
        THEN [err |-> "ValueError", arrays |-> <<>>]
        ELSE IF StartAt(counts, Len(shs)) # Len(xs)
        THEN [err |-> "AssertionError", arrays |-> <<>>]
        ELSE [err |-> "", arrays |-> [n \in 1..Len(shs) |-> Array(shs[n], piece(n))]]

\* arrays_to_flat without line 90: start is never advanced
RECURSIVE FillFlatNoAdvance(_, _, _, _, _)
FillFlatNoAdvance(xs, arrays, counts, n, start) ==
    IF n > Len(arrays) \/ n > Len(counts) THEN xs
    ELSE FillFlatNoAdvance([e \in 1..Len(xs) |->
                               IF e > start /\ e <= start + counts[n]
                               THEN arrays[n].data[e - start] ELSE xs[e]],
                           arrays, counts, n + 1, start)

\* lines 88-90 from the n-th array on: x is written slice by slice, and
\* what no slice covers keeps its zero
RECURSIVE FillFlat(_, _, _, _, _)
FillFlat(xs, arrays, counts, n, start) ==
    IF n > Len(arrays) \/ n > Len(counts) THEN xs
    ELSE FillFlat([e \in 1..Len(xs) |->
                      IF e > start /\ e <= start + counts[n]
                      THEN arrays[n].data[e - start] ELSE xs[e]],
                  arrays, counts, n + 1, start + counts[n])

arrays_to_flat(shs, arrays) ==
    LET counts == countsOf(shs)
    IN  FillFlat([e \in 1..Sum(counts) |-> Zero], arrays, counts, 1, 0)

---------------------------------------------------------------------------
(* Trainer: update_params, evaluate                                        *)

\* best_cost = 1e100 of line 72
E100 == <<1, 0>>

\* update_params that stops after the first parameter
update_params_first(ps, targets) == [n \in 1..Len(ps) |-> IF n = 1 THEN targets[n] ELSE ps[n]]

\* set_value(target) stores a copy of target in each shared variable
update_params(ps, targets) == [n \in 1..Len(ps) |-> targets[n]]

\* an improvement test that asks for a lower cost only
ImprovementLower(best, c, min_imp) == best = E100 \/ RLt(c, best)

\* a snapshot that shares the parameters' buffers
InPlaceShared(snapshot, n, value) == [snapshot EXCEPT ![n] = value]

\* The snapshot of lines 74 and 107 after value was written in place to
\* the buffer of the n-th parameter (get_value(borrow=True), v += ...):
\* get_value() and copy() gave the snapshot buffers of its own.
InPlace(snapshot, n, value) == snapshot

\* line 102.  With best_cost = 1e100 and a cost of the model's size, the
\* float best_cost - costs[0] rounds to 1e100, and 1e100 exceeds
\* 1e100 * min_improvement exactly when min_improvement < 1.
Improvement(best, c, min_imp) ==
    IF best = E100 THEN RLt(min_imp, One)
    ELSE RLt(RMul(best, min_imp), RSub(best, c))

\* a patience test that fires one iteration early
PatienceElapsedEager(iteration, best, pat) == iteration - best >= pat

\* line 112
PatienceElapsed(iteration, best, pat) == iteration - best > pat

---------------------------------------------------------------------------
(* SGD: _maybe_rescale_gradient, _apply_delta, the choice of learn         *)

\* _maybe_rescale_gradient without line 258: the gradient is left at norm 1
_maybe_rescale_gradient_unit(grad, max_norm) ==
    LET l == norm(grad)
    IN  IF RLt(max_norm, l) THEN <<ADiv(grad, l), l>>
        ELSE <<grad, l>>

\* <<g, l>>: the gradient, rescaled in place when l exceeds max_norm, and l
_maybe_rescale_gradient(grad, max_norm) ==
    LET l == norm(grad)
    IN  IF RLt(max_norm, l) THEN <<AScale(max_norm, ADiv(grad, l)), l>>
        ELSE <<grad, l>>

\* _apply_delta that clips only the elements that were positive
_apply_delta_positive(v, delta, clip) ==
    LET w == AAdd(v, delta)
    IN  IF clip
        THEN Array(v.shape, [e \in Elems(v) |->
                 IF RLt(Zero, v.data[e]) /\ RLt(w.data[e], Zero) THEN Zero ELSE w.data[e]])
        ELSE w

\* the buffer v of param after _apply_delta(param, delta)
_apply_delta(v, delta, clip) ==
    LET w == AAdd(v, delta)
        pos0(e) == RLt(Zero, v.data[e])
        neg0(e) == RLt(v.data[e], Zero)
        pos1(e) == RLt(Zero, w.data[e])
        neg1(e) == RLt(w.data[e], Zero)
    IN  IF clip
        THEN Array(v.shape, [e \in Elems(v) |->
                 IF (pos0(e) /\ neg1(e)) \/ (neg0(e) /\ pos1(e)) THEN Zero ELSE w.data[e]])
        ELSE w

\* line 134 with the accelerated pass chosen whatever the momentum
learn_nag(m) == "_nag"

\* line 134
learn(m) == IF RLt(Zero, m) THEN "_nag" ELSE "_sgd"

\* line 147 with the rate multiplied by the decay itself
DecayedTo(rate, decay) == RMul(rate, decay)

\* line 147
Decayed(rate, decay) == RMul(rate, RSub(One, decay))

---------------------------------------------------------------------------
(* The inputs of a training run                                            *)

\* the values of the network's parameters when the trainer is constructed
InitParams == <<Array(<<1, 2>>, <<<<1, 5>>, <<-1, 5>>>>), Array(<<1>>, <<Zero>>)>>

\* what self.f_grad(*x) can return for a minibatch: one array per parameter
GradSet ==
    { <<Array(<<1, 2>>, <<Num(3), Num(4)>>), Array(<<1>>, <<Num(1)>>)>>,
      <<Array(<<1, 2>>, <<Num(-6), Num(8)>>), Array(<<1>>, <<Num(-12)>>)>> }

\* the mean primary cost self.f_eval can report over valid_set
CostSet == {Num(c) : c \in {-2, -1, 0, 1}}

\* the moves scipy.optimize.minimize can make from one point to the next
StepSet == { <<Zero, Zero, Zero>>, <<<<-1, 2>>, <<1, 2>>, Num(-1)>> }

Validates == 1..MaxValidate
MinImprovements == {Zero, <<3, 4>>}
Patiences == {0, 1}
Batches == {1, 2}
Momenta == {Zero, <<1, 2>>}
MaxNorms == {Num(5), Num(100000)}

\* learning_rate of line 126
DefaultLearningRate == <<1, 10>>

\* The history of a run:
\*   term       how the loop ended: "Exhausted", "Converged", "Interrupted"
\*   passes     the update passes completed
\*   noimp      the validation checkpoints that ended in NoImprovement
\*   since      the checkpoints completed since the last improving one
\*   prev_best  best_cost on entry of the current evaluate call
\*   snap       the parameter values when line 107 last ran
\*   ref        the parameters under the plain SGD rule (momentum = 0)
\*   int_at     where the last KeyboardInterrupt was raised
\*   fn         the function a function call started with
\*   checked    the iteration evaluate was last invoked at, -1 before
\*   pre        best_cost, best_iter, best_params on entry of that call
\*   at         the parameter values on entry of that call
\*   out        how that call ended: "Improved", the error raised, or ""
\*              while it has not ended
\*   nag        the minibatch _nag took up last: the parameter values p0 and
\*              the velocities v0 before it, the parameter values gat that
\*              f_grad was called at, and whether its last parameter is done
\*   measured   the parameter values and the iteration at which the cost
\*              now in best_cost was measured; the values of construction
\*              while best_cost is the initial 1e100
\*   held       the parameter values at construction and at the start of
\*              every iteration with a validation checkpoint
H0 == [term |-> "", passes |-> 0, noimp |-> 0, since |-> 0, prev_best |-> E100, snap |-> InitParams, ref |-> InitParams, int_at |-> "", fn |-> "",
       checked |-> -1, pre |-> <<E100, 0, InitParams>>, at |-> InitParams, out |-> "",
       nag |-> [p0 |-> <<>>, v0 |-> <<>>, gat |-> <<>>, done |-> FALSE],
       measured |-> <<InitParams, 0>>, held |-> {InitParams}]

\* the outcome of the validation checkpoint that is about to end
Outcome ==
    IF i - best_iter > patience THEN "PatienceElapsed"
    ELSE IF improvement THEN "Improved"
    ELSE "NoImprovement"

FnIdle ==
    /\ arg = <<>>
    /\ ret = <<>>

\* the keyword arguments a trainer is constructed with; training sets of
\* several minibatches are enumerated for the runs of at most two
\* iterations, longer runs have a single minibatch
Kwargs ==
    /\ trainer \in {"SGD", "Scipy"}
    /\ validation_frequency \in Validates
    /\ min_improvement \in MinImprovements
    /\ iterations \in 0..MaxIterations
    /\ patience \in Patiences
    /\ momentum \in (IF trainer = "SGD" THEN Momenta ELSE {Zero})
    /\ max_gradient_norm \in (IF trainer = "SGD" THEN MaxNorms ELSE {Num(100000)})
    /\ clip_params_at_zero \in (IF trainer = "SGD" THEN BOOLEAN ELSE {FALSE})
    /\ train_set \in (IF iterations > 2 THEN {1} ELSE Batches)

\* the keyword arguments of the exhaustion scenario: five iterations, a
\* patience that cannot elapse, everything else at its default
KwargsExhaustion ==
    /\ trainer = "SGD"
    /\ validation_frequency \in Validates
    /\ min_improvement = Zero
    /\ iterations = 5
    /\ patience = 1000
    /\ momentum = Zero
    /\ max_gradient_norm = Num(100000)
    /\ clip_params_at_zero = FALSE
    /\ train_set = 1

\* Trainer.__init__ (lines 63-74) and SGD.__init__ (lines 124-128), then the
\* entry of train (line 132)
TrainInit ==
    /\ (Kwargs \/ KwargsExhaustion)
    /\ learning_rate_decay = <<1, 10>>
    /\ params = InitParams
    /\ best_cost = E100
    /\ best_iter = 0
    /\ best_params = params
    /\ learning_rate = DefaultLearningRate
    /\ velocities = [n \in 1..Len(params) |-> zeros_like(params[n])]
    /\ pc = "loop"
    /\ i = 0
    /\ cost = Zero
    /\ improvement = FALSE
    /\ batch = 0
    /\ k = 0
    /\ grads = <<>>
    /\ moves = <<>>
    /\ x = <<>>
    /\ nit = 0
    /\ h = H0

Init ==
    /\ TrainInit
    /\ FnIdle

---------------------------------------------------------------------------
(* SGD.train and Scipy.train: the loop                                     *)

EvalPcs == {"evaluate", "eval_105", "eval_106", "eval_107", "eval_112"}
LearnPcs == {"sgd_grad", "sgd_apply", "nag_move", "nag_grad", "nag_apply"}
MinimizePcs == {"minimize", "minimizing"}

\* where the loop goes after a validation step, or when none is due
AfterEvaluate == IF trainer = "SGD" THEN "learn" ELSE "minimize"

\* a validation step at every iteration
ValidationDueAlways(n) == TRUE

\* line 137: is a validation step due at iteration n
ValidationDue(n) == trainer = "Scipy" \/ n % validation_frequency = 0

\* a loop that makes one turn too many
ExhaustedLate(n, its) == n > its

\* xrange(self.iterations) is exhausted before turn n
Exhausted(n, its) == n >= its

\* lines 136-137 and 295: the head of the for loop
TrainLoop ==
    /\ pc = "loop"
    /\ IF Exhausted(i, iterations)
       THEN /\ pc' = "restore"
            /\ h' = [h EXCEPT !.term = "Exhausted"]
       ELSE /\ pc' = IF ValidationDue(i) THEN "evaluate" ELSE AfterEvaluate
            /\ h' = IF ValidationDue(i)
                    THEN [h EXCEPT !.checked = i, !.pre = <<best_cost, best_iter, best_params>>,
                                   !.at = params, !.out = "", !.held = @ \cup {params}]
                    ELSE h
    /\ UNCHANGED <<cfgVars, params, bestVars, learning_rate, velocities, i, evalVars, learnVars, scipyVars, fnVars>>

\* lines 101-102
EvalCosts ==
    /\ pc = "evaluate"
    /\ \E c \in CostSet :
         /\ cost' = c
         /\ improvement' = Improvement(best_cost, c, min_improvement)
    /\ pc' = IF improvement' THEN "eval_105" ELSE "eval_112"
    /\ h' = [h EXCEPT !.prev_best = best_cost]
    /\ UNCHANGED <<cfgVars, params, bestVars, learning_rate, velocities, i, learnVars, scipyVars, fnVars>>

\* line 105
EvalBestCost ==
    /\ pc = "eval_105"
    /\ best_cost' = cost
    /\ pc' = "eval_106"
    /\ h' = [h EXCEPT !.measured = <<params, i>>]
    /\ UNCHANGED <<cfgVars, params, best_iter, best_params, learning_rate, velocities, i, evalVars, learnVars, scipyVars, fnVars>>

\* line 106
EvalBestIter ==
    /\ pc = "eval_106"
    /\ best_iter' = i
    /\ pc' = "eval_107"
    /\ UNCHANGED <<cfgVars, params, best_cost, best_params, learning_rate, velocities, i, evalVars, learnVars, scipyVars, fnVars, h>>

\* line 107: a copy of every parameter's value
EvalBestParams ==
    /\ pc = "eval_107"
    /\ best_params' = params
    /\ pc' = "eval_112"
    /\ h' = [h EXCEPT !.snap = params]
    /\ UNCHANGED <<cfgVars, params, best_cost, best_iter, learning_rate, velocities, i, evalVars, learnVars, scipyVars, fnVars>>

\* what evaluate raises at lines 112-115: "" when it returns
Raised == 
    IF PatienceElapsed(i, best_iter, patience) THEN "PatienceElapsedError"
    ELSE IF ~improvement THEN "NoImprovementError"
    ELSE ""

\* lines 112-115, and the handlers of lines 143-147 and 301-305
EvalRaise ==
    /\ pc = "eval_112"
    /\ pc' = IF Raised = "PatienceElapsedError" THEN "restore" ELSE AfterEvaluate
    /\ learning_rate' = IF Raised = "NoImprovementError" /\ trainer = "SGD"
                        THEN Decayed(learning_rate, learning_rate_decay)
                        ELSE learning_rate
    /\ h' = [h EXCEPT !.term = IF Raised = "PatienceElapsedError" THEN "Converged" ELSE @,
                      !.noimp = IF Outcome = "NoImprovement" THEN @ + 1 ELSE @,
                      !.since = IF improvement THEN 0 ELSE @ + 1,
                      !.out = IF Raised = "" THEN "Improved" ELSE Raised]
    /\ UNCHANGED <<cfgVars, params, bestVars, velocities, i, evalVars, learnVars, scipyVars, fnVars>>

\* handlers that go on with the next iteration instead of leaving the loop
OnInterruptContinue(p) == "loop"

\* where train goes when KeyboardInterrupt is raised at position p:
\* lines 140-142, 155-157, 298-300 and 315-317
OnInterrupt(p) == "restore"

\* KeyboardInterrupt, raised in evaluate, in the update pass or in minimize
Interrupt ==
    /\ pc \in EvalPcs \cup LearnPcs \cup MinimizePcs
    /\ pc' = OnInterrupt(pc)
    /\ h' = [h EXCEPT !.term = "Interrupted", !.int_at = pc]
    /\ UNCHANGED <<cfgVars, params, bestVars, learning_rate, velocities, i, evalVars, learnVars, scipyVars, fnVars>>

\* a return without the restoration
RestoreSkipped ==
    /\ pc = "restore"
    /\ pc' = "done"
    /\ UNCHANGED <<cfgVars, params, bestVars, learning_rate, velocities, i, evalVars, learnVars, scipyVars, fnVars, h>>

\* lines 169 and 321
Restore ==
    /\ pc = "restore"
    /\ params' = update_params(params, best_params)
    /\ pc' = "done"
    /\ UNCHANGED <<cfgVars, bestVars, learning_rate, velocities, i, evalVars, learnVars, scipyVars, fnVars, h>>

\* KeyboardInterrupt raised outside the try blocks (lines 136-137, 149-150,
\* 159-169, 295, 318-321): nothing catches it and train does not return
InterruptUncaught ==
    /\ pc \in {"loop", "learn", "restore"}
    /\ pc' = "raised"
    /\ h' = [h EXCEPT !.int_at = pc]
    /\ UNCHANGED <<cfgVars, params, bestVars, learning_rate, velocities, i, evalVars, learnVars, scipyVars, fnVars>>

---------------------------------------------------------------------------
(* SGD: the update pass                                                    *)

\* the plain stochastic gradient step of one minibatch on every parameter
SgdRule(ps, g) ==
    [n \in 1..Len(ps) |->
        _apply_delta(ps[n],
                     AScale(RNeg(learning_rate), _maybe_rescale_gradient(g[n], max_gradient_norm)[1]),
                     clip_params_at_zero)]

\* lines 149-152: the update pass starts on the first minibatch
LearnBegin ==
    /\ pc = "learn"
    /\ pc' = IF learn(momentum) = "_nag" THEN "nag_move" ELSE "sgd_grad"
    /\ batch' = 1
    /\ k' = 1
    /\ grads' = <<>>
    /\ moves' = <<>>
    /\ UNCHANGED <<cfgVars, params, bestVars, learning_rate, velocities, i, evalVars, scipyVars, fnVars, h>>

\* lines 244-246: self.f_grad(*x) on the next minibatch
SgdGrad ==
    /\ pc = "sgd_grad"
    /\ \E g \in GradSet : 
         /\ grads' = g
         /\ h' = [h EXCEPT !.ref = SgdRule(@, g)]
    /\ k' = 1
    /\ pc' = "sgd_apply"
    /\ UNCHANGED <<cfgVars, params, bestVars, learning_rate, velocities, i, evalVars, batch, moves, scipyVars, fnVars>>

\* lines 247-249 for the k-th parameter; after the last one lines 250 and
\* 152-154, and after the last minibatch lines 159-167
SgdApply ==
    /\ pc = "sgd_apply"
    /\ LET grad == _maybe_rescale_gradient(grads[k], max_gradient_norm)[1]
       IN  params' = [params EXCEPT ![k] = _apply_delta(@, AScale(RNeg(learning_rate), grad), clip_params_at_zero)]
    /\ best_params' = InPlace(best_params, k, params'[k])
    /\ IF k < Len(params)
       THEN /\ k' = k + 1
            /\ UNCHANGED <<pc, batch, i, h>>
       ELSE /\ k' = 1
            /\ IF batch < train_set
               THEN /\ batch' = batch + 1
                    /\ pc' = "sgd_grad"
                    /\ UNCHANGED <<i, h>>
               ELSE /\ batch' = batch
                    /\ pc' = "loop"
                    /\ i' = i + 1
                    /\ h' = [h EXCEPT !.passes = @ + 1]
    /\ UNCHANGED <<cfgVars, best_cost, best_iter, learning_rate, velocities, evalVars, grads, moves, scipyVars, fnVars>>

\* a move that ignores the velocity
LookaheadNone(m, vel) == zeros_like(vel)

\* line 207: u = self.momentum * vel
Lookahead(m, vel) == AScale(m, vel)

\* lines 206-211 for the k-th parameter
NagMove ==
    /\ pc = "nag_move"
    /\ LET u == Lookahead(momentum, velocities[k])
       IN  /\ params' = [params EXCEPT ![k] = AAdd(@, u)]
           /\ moves' = Append(moves, u)
    /\ h' = IF k = 1
            THEN [h EXCEPT !.nag = [p0 |-> params, v0 |-> velocities, gat |-> <<>>, done |-> FALSE]]
            ELSE h
    /\ best_params' = InPlace(best_params, k, params'[k])
    /\ IF k < Len(params)
       THEN /\ k' = k + 1
            /\ pc' = pc
       ELSE /\ k' = 1
            /\ pc' = "nag_grad"
    /\ UNCHANGED <<cfgVars, best_cost, best_iter, learning_rate, velocities, i, evalVars, batch, grads, scipyVars, fnVars>>

\* line 229: self.f_grad(*x) at the lookahead position
NagGrad ==
    /\ pc = "nag_grad"
    /\ \E g \in GradSet :
         /\ grads' = g
         /\ h' = [h EXCEPT !.ref = IF momentum = Zero THEN SgdRule(@, g) ELSE @,
                           !.nag.gat = params]
    /\ k' = 1
    /\ pc' = "nag_apply"
    /\ UNCHANGED <<cfgVars, params, bestVars, learning_rate, velocities, i, evalVars, batch, moves, scipyVars, fnVars>>

\* lines 230-234 for the k-th parameter; after the last one lines 235 and
\* 152-154, and after the last minibatch lines 159-167
NagApply ==
    /\ pc = "nag_apply"
    /\ LET grad == _maybe_rescale_gradient(grads[k], max_gradient_norm)[1]
           d == AScale(RNeg(learning_rate), grad)
       IN  /\ params' = [params EXCEPT ![k] = _apply_delta(@, d, clip_params_at_zero)]
           /\ velocities' = [velocities EXCEPT ![k] = AAdd(moves[k], d)]
    /\ best_params' = InPlace(best_params, k, params'[k])
    /\ IF k < Len(params)
       THEN /\ k' = k + 1
            /\ UNCHANGED <<pc, batch, i, moves, h>>
       ELSE /\ k' = 1
            /\ moves' = <<>>
            /\ IF batch < train_set
               THEN /\ batch' = batch + 1
                    /\ pc' = "nag_move"
                    /\ i' = i
                    /\ h' = [h EXCEPT !.nag.done = TRUE]
               ELSE /\ batch' = batch
                    /\ pc' = "loop"
                    /\ i' = i + 1
                    /\ h' = [h EXCEPT !.passes = @ + 1, !.nag.done = TRUE]
    /\ UNCHANGED <<cfgVars, best_cost, best_iter, learning_rate, evalVars, grads, scipyVars, fnVars>>

---------------------------------------------------------------------------
(* Scipy: one call of scipy.optimize.minimize                              *)

\* a starting point taken from the model's current parameter values
x0_current(ps, best) == arrays_to_flat(shapesOf(ps), ps)

\* line 309: x0=self.arrays_to_flat(self.best_params)
x0(ps, best) == arrays_to_flat(shapesOf(ps), best)

\* lines 307-314: minimize starts from x0
MinimizeStart ==
    /\ pc = "minimize"
    /\ x' = x0(params, best_params)
    /\ nit' = 0
    /\ pc' = "minimizing"
    /\ UNCHANGED <<cfgVars, params, bestVars, learning_rate, velocities, i, evalVars, learnVars, fnVars, h>>

\* one inner step: minimize moves and calls function_at / gradient_at
\* there (lines 279-281, 285-287), at most maxiter times
MinimizeStep ==
    /\ pc = "minimizing"
    /\ nit < validation_frequency
    /\ \E st \in StepSet :
         x' = [e \in 1..Len(x) |-> RAdd(x[e], st[e])]
    /\ params' = update_params(params, flat_to_arrays(shapesOf(params), x').arrays)
    /\ nit' = nit + 1
    /\ UNCHANGED <<cfgVars, bestVars, learning_rate, velocities, pc, i, evalVars, learnVars, fnVars, h>>

\* lines 318-320: res.x is written to the parameters
MinimizeReturn ==
    /\ pc = "minimizing"
    /\ params' = update_params(params, flat_to_arrays(shapesOf(params), x).arrays)
    /\ i' = i + 1
    /\ pc' = "loop"
    /\ h' = [h EXCEPT !.passes = @ + 1]
    /\ UNCHANGED <<cfgVars, bestVars, learning_rate, velocities, evalVars, learnVars, scipyVars, fnVars>>

Next ==
    \/ TrainLoop
    \/ EvalCosts
    \/ EvalBestCost
    \/ EvalBestIter
    \/ EvalBestParams
    \/ EvalRaise
    \/ Interrupt
    \/ InterruptUncaught
    \/ Restore
    \/ LearnBegin
    \/ SgdGrad
    \/ SgdApply
    \/ NagMove
    \/ NagGrad
    \/ NagApply
    \/ MinimizeStart
    \/ MinimizeStep
    \/ MinimizeReturn

Spec == Init /\ [][Next]_vars

---------------------------------------------------------------------------
(* Functions applied on their own: the constructors, _apply_delta,         *)
(* _maybe_rescale_gradient, arrays_to_flat and flat_to_arrays, each on     *)
(* inputs drawn from bounded sets.  The flattening functions are applied   *)
(* one after the other, in both orders.                                    *)

trainVars == <<cfgVars, params, bestVars, learning_rate, velocities, i, evalVars, learnVars, scipyVars>>

Elements == {Num(e) : e \in 0..MaxElem}
SignedElements == {Num(e) : e \in -MaxElem..MaxElem}

\* the shapes a parameter can have, and the parameter lists of a network
ShapeSet == {<<1>>, <<2>>, <<1, 2>>, <<2, 1>>}
ShapeLists == {<<s>> : s \in ShapeSet} \cup {<<s, t>> : s, t \in ShapeSet}

ArraysOfShape(sh, elements) == {Array(sh, d) : d \in [1..Prod(sh) -> elements]}
AllArrays == UNION {ArraysOfShape(sh, Elements) : sh \in ShapeSet}

\* the lists of arrays whose shapes are shs
ArrayLists(shs) == {as \in [1..Len(shs) -> AllArrays] : \A n \in 1..Len(shs) : as[n].shape = shs[n]}

\* the flat buffers of the right length, one element short and one too long
FlatBuffers(shs) ==
    LET total == Sum(countsOf(shs))
    IN  UNION {[1..n -> Elements] : n \in {m \in {total - 1, total, total + 1} : m >= 0}}

\* the gradients with two integer elements and a rational norm
Gradients == {Array(<<2>>, <<Num(a), Num(b)>>) : a, b \in -MaxGrad..MaxGrad}

NormedGradients == {g \in Gradients : IsSquare(SumSq(g.data)[1])}

\* the trainer classes of the module that a caller can construct
Classes == {"SGD", "Scipy", "LM", "FORCE"}

\* What the constructor of class cls raises, "" when it returns a trainer.
\* LM.__init__ is line 332.  FORCE.__init__ is line 485: Trainer is neither
\* an instance nor a subclass of FORCE, so super(FORCE, Trainer) raises
\* TypeError before Trainer.__init__ is reached.
Construct(cls) ==
    CASE cls = "LM" -> "NotImplementedError"
      [] cls = "FORCE" -> "TypeError"
      [] OTHER -> ""

FnCalls == {"call_apply_delta", "call_rescale", "call_arrays_to_flat", "call_flat_to_arrays", "call_init"}

FnInit ==
    /\ pc \in FnCalls
    /\ trainer = "SGD"
    /\ validation_frequency = 3
    /\ min_improvement = Zero
    /\ iterations = 0
    /\ patience = 0
    /\ momentum = Zero
    /\ max_gradient_norm \in (IF pc = "call_rescale" THEN MaxNorms \cup {One} ELSE {Num(100000)})
    /\ learning_rate_decay = <<1, 10>>
    /\ clip_params_at_zero \in (IF pc = "call_apply_delta" THEN BOOLEAN ELSE {FALSE})
    /\ train_set = 1
    /\ params \in (IF pc \in {"call_arrays_to_flat", "call_flat_to_arrays"}
                   THEN {[n \in 1..Len(shs) |-> Array(shs[n], [e \in 1..Prod(shs[n]) |-> Zero])] : shs \in ShapeLists}
                   ELSE {InitParams})
    /\ best_cost = E100
    /\ best_iter = 0
    /\ best_params = params
    /\ learning_rate = DefaultLearningRate
    /\ velocities = <<>>
    /\ i = 0
    /\ cost = Zero
    /\ improvement = FALSE
    /\ batch = 0
    /\ k = 0
    /\ grads = <<>>
    /\ moves = <<>>
    /\ x = <<>>
    /\ nit = 0
    /\ arg \in (CASE pc = "call_apply_delta" ->
                       [v : ArraysOfShape(<<2>>, SignedElements), delta : ArraysOfShape(<<2>>, SignedElements)]
                  [] pc = "call_rescale" -> NormedGradients
                  [] pc = "call_arrays_to_flat" -> ArrayLists(shapesOf(params))
                  [] pc = "call_init" -> Classes
                  [] OTHER -> FlatBuffers(shapesOf(params)))
    /\ ret = arg
    /\ h = [H0 EXCEPT !.fn = pc]

\* SGD._apply_delta(param, delta) on a parameter whose value is arg.v
ApplyDeltaCall ==
    /\ pc = "call_apply_delta"
    /\ ret' = _apply_delta(arg.v, arg.delta, clip_params_at_zero)
    /\ pc' = "ret_apply_delta"
    /\ UNCHANGED <<trainVars, arg, h>>

\* SGD._maybe_rescale_gradient(grad)
RescaleCall ==
    /\ pc = "call_rescale"
    /\ ret' = _maybe_rescale_gradient(arg, max_gradient_norm)
    /\ pc' = "ret_rescale"
    /\ UNCHANGED <<trainVars, arg, h>>

\* Trainer.arrays_to_flat on the arrays given or on the arrays unflattened
ArraysToFlatCall ==
    /\ pc \in {"call_arrays_to_flat", "back_arrays_to_flat"}
    /\ ret' = arrays_to_flat(shapesOf(params), ret)
    /\ pc' = IF pc = "call_arrays_to_flat" THEN "back_flat_to_arrays" ELSE "returned"
    /\ UNCHANGED <<trainVars, arg, h>>

\* Trainer.flat_to_arrays on the buffer given or on the buffer flattened
FlatToArraysCall ==
    /\ pc \in {"call_flat_to_arrays", "back_flat_to_arrays"}
    /\ LET r == flat_to_arrays(shapesOf(params), ret)
       IN  IF r.err = ""
           THEN /\ ret' = r.arrays
                /\ pc' = IF pc = "call_flat_to_arrays" THEN "back_arrays_to_flat" ELSE "returned"
           ELSE /\ ret' = r
                /\ pc' = "raised"
    /\ UNCHANGED <<trainVars, arg, h>>

\* cls(network, **kwargs) for a trainer class cls
InitCall ==
    /\ pc = "call_init"
    /\ ret' = Construct(arg)
    /\ pc' = IF ret' = "" THEN "ret_init" ELSE "raised_init"
    /\ UNCHANGED <<trainVars, arg, h>>

NextFn ==
    \/ InitCall
    \/ ApplyDeltaCall
    \/ RescaleCall
    \/ ArraysToFlatCall
    \/ FlatToArraysCall

SpecFn == FnInit /\ [][NextFn]_vars

---------------------------------------------------------------------------
(* Properties                                                              *)

\* a < b for values of best_cost, one of which may be the initial 1e100
CostLess(a, b) == a # E100 /\ (b = E100 \/ RLt(a, b))

RECURSIVE RPow(_, _)
RPow(a, n) == IF n = 0 THEN One ELSE RMul(a, RPow(a, n - 1))

AllZero(a) == \A e \in Elems(a) : a.data[e] = Zero

RECURSIVE Dot(_, _)
Dot(s, t) == IF s = <<>> THEN Zero ELSE RAdd(RMul(Head(s), Head(t)), Dot(Tail(s), Tail(t)))

\* C1: when train returns, whichever way the loop ended, every parameter
\* equals its entry of best_params, and best_params is the snapshot line 107
\* took last (the construction-time values when it never ran).
C1_RestoredBest ==
    pc = "done" => (params = best_params /\ best_params = h.snap)

C1_Witness ==
    /\ pc = "done"
    /\ h.term = "Interrupted"
    /\ h.int_at \in LearnPcs
    /\ best_params # InitParams

\* C2: PatienceElapsed fires at the (patience + 1)-th validation checkpoint
\* after the last improving one, whatever the validation frequency.
C2_FiresAtPatiencePlusOne ==
    h.term = "Converged" => h.since = patience + 1

\* C3: over the evaluate calls best_cost never increases, and best_iter
\* changes only on a call whose cost is strictly below the best_cost the call
\* found.
C3_BestCostMonotone ==
    [][/\ best_cost' # best_cost => CostLess(best_cost', best_cost)
       /\ best_iter' # best_iter => CostLess(cost, h.prev_best)]_vars

\* C4: in SGD.train the learning rate is the initial rate times
\* (1 - learning_rate_decay) to the number of checkpoints that ended in
\* NoImprovement; nothing else changes it.
C4_DecayPerNoImprovement ==
    (trainer = "SGD") =>
        learning_rate = RMul(DefaultLearningRate, RPow(RSub(One, learning_rate_decay), h.noimp))

C4_Witness ==
    /\ trainer = "SGD"
    /\ h.noimp = 2
    /\ learning_rate = <<81, 1000>>

\* C5: when neither PatienceElapsed nor an interrupt ended the loop,
\* SGD.train made exactly `iterations` update passes and ended Exhausted.
C5_ExhaustedAfterIterations ==
    (trainer = "SGD" /\ pc \in {"restore", "done"} /\ h.term \notin {"Converged", "Interrupted"}) =>
        (h.term = "Exhausted" /\ h.passes = iterations /\ i = iterations)

C5_Witness ==
    /\ trainer = "SGD"
    /\ iterations = 5
    /\ patience = 1000
    /\ pc = "done"
    /\ h.term = "Exhausted"
    /\ h.passes = 5
    /\ best_iter = 0
    /\ h.noimp > 0

\* C6: after a KeyboardInterrupt raised in the validation step or in the
\* update pass, SGD.train is at the restoration of best_params or has
\* returned with them: no evaluate call, no batch update and no propagated
\* exception follows.
C6_InterruptStops ==
    (trainer = "SGD" /\ h.int_at \in EvalPcs \cup LearnPcs) =>
        /\ pc \in {"restore", "done"}
        /\ h.term = "Interrupted"
        /\ pc = "done" => params = best_params

C6_Witness ==
    /\ trainer = "SGD"
    /\ pc = "done"
    /\ h.int_at = "sgd_apply"
    /\ train_set = 2
    /\ batch = 1
    /\ params = best_params

\* C7: training with momentum = 0 follows the plain SGD rule after every
\* batch, leaves every velocity buffer at zero and makes no lookahead move.
C7_MomentumZeroIsSgd ==
    (trainer = "SGD" /\ momentum = Zero) =>
        /\ \A n \in 1..Len(velocities) : AllZero(velocities[n])
        /\ \A n \in 1..Len(moves) : AllZero(moves[n])
        /\ (pc \in {"loop", "learn", "sgd_grad"} \cup EvalPcs \/ (pc = "nag_move" /\ k = 1)) =>
               params = h.ref

C7_Witness ==
    /\ trainer = "SGD"
    /\ momentum = Zero
    /\ pc = "sgd_grad"
    /\ batch = 2
    /\ h.passes >= 1
    /\ params # InitParams

\* C8: _apply_delta sets each element to old + delta; with clipping on, an
\* element that was positive and becomes <= 0, or was negative and becomes
\* >= 0, ends at zero, and none ends with the sign opposite to its old one.
C8_ApplyDelta ==
    pc = "ret_apply_delta" =>
        \A e \in Elems(arg.v) :
            LET old == arg.v.data[e]
                sum == RAdd(old, arg.delta.data[e])
                new == ret.data[e]
                crosses == \/ (RLt(Zero, old) /\ ~RLt(Zero, sum))
                           \/ (RLt(old, Zero) /\ ~RLt(sum, Zero))
            IN  /\ (clip_params_at_zero /\ crosses) => new = Zero
                /\ ~(clip_params_at_zero /\ crosses) => new = sum
                /\ clip_params_at_zero => /\ ~(RLt(Zero, old) /\ RLt(new, Zero))
                                          /\ ~(RLt(old, Zero) /\ RLt(Zero, new))

C8_Witness ==
    /\ pc = "ret_apply_delta"
    /\ clip_params_at_zero
    /\ arg.v.data = <<Num(1), Num(-1)>>
    /\ arg.delta.data = <<Num(-2), Num(2)>>
    /\ ret.data = <<Zero, Zero>>

\* C9: _maybe_rescale_gradient returns the gradient unchanged when its norm
\* is at most max_gradient_norm, a gradient of norm max_gradient_norm and of
\* the same direction when it is larger, and the original norm in both cases.
C9_Rescale ==
    pc = "ret_rescale" =>
        LET g == arg.data
            r == ret[1].data
            l == ret[2]
        IN  /\ ~RLt(l, Zero)
            /\ RMul(l, l) = SumSq(g)
            /\ ~RLt(max_gradient_norm, l) => ret[1] = arg
            /\ RLt(max_gradient_norm, l) =>
                   /\ SumSq(r) = RMul(max_gradient_norm, max_gradient_norm)
                   /\ \A a, b \in 1..Len(g) : RMul(r[a], g[b]) = RMul(r[b], g[a])
                   /\ RLt(Zero, Dot(r, g))
                   /\ ret[1].shape = arg.shape

C9_Witness ==
    /\ pc = "ret_rescale"
    /\ max_gradient_norm = One
    /\ arg.data = <<Num(3), Num(4)>>
    /\ ret = <<Array(<<2>>, <<<<3, 5>>, <<4, 5>>>>), Num(5)>>

\* C10: flat_to_arrays(arrays_to_flat(arrays)) is the list of arrays,
\* arrays_to_flat(flat_to_arrays(x)) is x for a buffer of the right length,
\* neither fails, and arrays_to_flat's result has as many elements as the
\* arrays together.
C10_RoundTrip ==
    /\ pc = "returned" => ret = arg
    /\ (pc = "back_flat_to_arrays" /\ h.fn = "call_arrays_to_flat") =>
           Len(ret) = Sum([n \in 1..Len(arg) |-> Len(arg[n].data)])
    /\ pc = "raised" =>
           (h.fn = "call_flat_to_arrays" /\ Len(arg) # Sum(countsOf(shapesOf(params))))

C10_Witness ==
    /\ pc = "returned"
    /\ h.fn = "call_arrays_to_flat"
    /\ Len(arg) = 2
    /\ arg[1].shape = <<2, 1>>
    /\ arg[1].data # arg[2].data

\* C11: constructing LM or FORCE raises NotImplementedError, and no trainer
\* object is returned.
C11_NotImplemented ==
    (h.fn = "call_init" /\ arg \in {"LM", "FORCE"} /\ pc # "call_init") =>
        (pc = "raised_init" /\ ret = "NotImplementedError")

\* best - c > best * m in the reals, for costs far below 1e100
Exceeds(best, c, m) ==
    IF best = E100 THEN RLt(m, One) ELSE RLt(RMul(best, m), RSub(best, c))

\* C12: an evaluate call that has ended was an improvement iff
\* best_cost - cost > best_cost * min_improvement held on entry; then
\* best_cost, best_iter and best_params are the cost, the iteration and
\* the parameter values of the call, otherwise they are what they were on
\* entry; the call raised PatienceElapsedError iff iteration - best_iter >
\* patience afterwards, else NoImprovementError iff it was not an
\* improvement, else it returned.
C12_EvaluateOutcome ==
    h.out # "" =>
        LET imp == Exceeds(h.pre[1], cost, min_improvement)
        IN  /\ imp => <<best_cost, best_iter, best_params>> = <<cost, h.checked, h.at>>
            /\ ~imp => <<best_cost, best_iter, best_params>> = h.pre
            /\ h.out = IF h.checked - best_iter > patience THEN "PatienceElapsedError"
                       ELSE IF ~imp THEN "NoImprovementError"
                       ELSE "Improved"

C12_Witness ==
    /\ h.out = "PatienceElapsedError"
    /\ ~Exceeds(h.pre[1], cost, min_improvement)
    /\ h.pre[1] # E100
    /\ best_params # h.at

\* C13: SGD.train is inside evaluate only at an iteration i with
\* i % validation_frequency = 0 whose update pass has not run; the update
\* pass of iteration i runs after an evaluate call at i that did not raise
\* PatienceElapsedError when i % validation_frequency = 0 and without one
\* otherwise; once evaluate raised PatienceElapsedError at iteration i the
\* loop is over and only the passes of iterations 0..i-1 were made.
C13_EvaluateWhenDue ==
    trainer = "SGD" =>
        /\ pc \in EvalPcs =>
               (i % validation_frequency = 0 /\ h.checked = i /\ h.passes = i /\ h.out = "")
        /\ pc \in LearnPcs \cup {"learn"} =>
               /\ h.passes = i
               /\ (h.checked = i) <=> (i % validation_frequency = 0)
               /\ h.checked = i => h.out \in {"Improved", "NoImprovementError"}
        /\ h.term = "Converged" =>
               /\ pc \in {"restore", "done", "raised"}
               /\ h.out = "PatienceElapsedError"
               /\ h.checked = i
               /\ h.passes = i

C13_Witness ==
    /\ trainer = "SGD"
    /\ validation_frequency = 2
    /\ iterations = 3
    /\ h.term = "Converged"
    /\ h.checked = 2
    /\ h.passes = 2
    /\ pc = "done"

\* C14: a step of train changes best_cost, best_iter or best_params only
\* when it is line 105, 106 or 107 of evaluate; the update passes with
\* their in-place writes, the learning-rate decay and the restoration
\* leave all three as they are.
C14_BestFrame ==
    [][<<best_cost, best_iter, best_params>>' # <<best_cost, best_iter, best_params>>
           => pc \in {"eval_105", "eval_106", "eval_107"}]_vars

C14_Witness ==
    /\ trainer = "SGD"
    /\ momentum # Zero
    /\ pc = "done"
    /\ h.passes >= 2
    /\ h.noimp >= 1
    /\ best_iter = 0
    /\ best_cost # E100
    /\ best_params = InitParams
    /\ h.at # InitParams

\* the state right after _nag processed a minibatch
AfterNagBatch ==
    /\ trainer = "SGD"
    /\ h.nag.done
    /\ pc = "loop" \/ (pc = "nag_move" /\ batch > 1 /\ k = 1)

\* the velocity the claim gives the n-th parameter: momentum * v - a * g
NagVelocity(n) ==
    AAdd(AScale(momentum, h.nag.v0[n]),
         AScale(RNeg(learning_rate), _maybe_rescale_gradient(grads[n], max_gradient_norm)[1]))

RECURSIVE Flat(_)
Flat(arrays) == IF arrays = <<>> THEN <<>> ELSE Head(arrays).data \o Flat(Tail(arrays))

\* C16: in Scipy.train the minimizer runs only after an evaluate call of
\* the same iteration has ended without PatienceElapsedError; it starts
\* from the flattened best_params, takes at most validation_frequency
\* steps, and its result is what the parameters hold when the next
\* iteration begins; a NoImprovementError leaves best_cost, best_iter,
\* best_params, the parameters and the learning rate as they were.
C16_ScipyIteration ==
    trainer = "Scipy" =>
        /\ pc \in MinimizePcs =>
               (h.checked = i /\ h.passes = i /\ h.out \in {"Improved", "NoImprovementError"})
        /\ (pc = "minimizing" /\ nit = 0) => x = Flat(best_params)
        /\ nit <= validation_frequency
        /\ (pc = "loop" /\ h.passes > 0) => Flat(params) = x
        /\ (pc = "minimize" /\ h.out = "NoImprovementError") =>
               /\ <<best_cost, best_iter, best_params>> = h.pre
               /\ params = h.at
               /\ learning_rate = DefaultLearningRate

C16_Witness ==
    /\ trainer = "Scipy"
    /\ pc = "minimizing"
    /\ nit = 0
    /\ i = 1
    /\ h.out = "NoImprovementError"
    /\ params # best_params
    /\ x = Flat(best_params)

\* C17: flat_to_arrays applied to a buffer whose length is not the total
\* number of parameter elements raises an error and returns no arrays,
\* for a buffer too short and for one too long.
C17_LengthError ==
    (h.fn = "call_flat_to_arrays" /\ pc # "call_flat_to_arrays"
         /\ Len(arg) # Sum([n \in 1..Len(params) |-> Len(params[n].data)])) =>
        (pc = "raised" /\ ret.err \in {"ValueError", "AssertionError"} /\ ret.arrays = <<>>)

C17_Witness ==
    /\ h.fn = "call_flat_to_arrays"
    /\ pc = "raised"
    /\ Len(params) = 2
    /\ Len(arg) = Len(params[1].data) + Len(params[2].data) + 1
    /\ ret.err = "AssertionError"

\* C18: an evaluate call that raised PatienceElapsedError was not an
\* improvement and left best_cost, best_iter and best_params as they were;
\* and throughout SGD.train best_iter is between 0 and the current
\* iteration and is a multiple of validation_frequency.
C18_NoPatienceOnImprovement ==
    /\ patience >= 0
    /\ h.out = "PatienceElapsedError" =>
           /\ ~improvement
           /\ ~Exceeds(h.pre[1], cost, min_improvement)
           /\ <<best_cost, best_iter, best_params>> = h.pre
    /\ trainer = "SGD" =>
           /\ 0 <= best_iter
           /\ best_iter <= i
           /\ best_iter % validation_frequency = 0

C18_Witness ==
    /\ trainer = "SGD"
    /\ patience = 0
    /\ h.out = "PatienceElapsedError"
    /\ best_iter = 1
    /\ i = 2
    /\ pc = "done"

\* C19: wherever KeyboardInterrupt can reach SGD.train inside its try
\* blocks, best_params and best_iter are the parameter values and the
\* iteration at which best_cost was measured, and the parameters train
\* returns with are those values.
C19_InterruptConsistent ==
    trainer = "SGD" =>
        /\ pc \in EvalPcs \cup LearnPcs => <<best_params, best_iter>> = h.measured
        /\ pc = "done" => params = h.measured[1]

\* C20: the parameters SGD.train returns with are values the model held
\* at construction or at the start of an iteration with a validation
\* checkpoint, namely those of the last snapshot; and when iterations <=
\* validation_frequency they are the values train was entered with.
C20_ReturnsCheckpointValues ==
    (trainer = "SGD" /\ pc = "done") =>
        /\ params \in h.held
        /\ params = h.snap
        /\ iterations <= validation_frequency => params = InitParams

C20_Witness ==
    /\ trainer = "SGD"
    /\ pc = "done"
    /\ iterations = 2
    /\ validation_frequency = 2
    /\ h.term = "Exhausted"
    /\ h.passes = 2
    /\ best_cost # E100
    /\ params = InitParams

====
